---------------------------- MODULE Spec2Model ----------------------------
(***************************************************************************)
(* A model of src/main.py: the corridor generator of TheTubeGame.          *)
(*                                                                         *)
(* A Corridor owns a deque of CorridorCell (direction, length), the dict   *)
(* occupied_positions from grid cell to Direction, and the screen size.    *)
(* The constructor seeds one cell and calls _add_safe_cell until           *)
(* _is_screen_filled; shift_corridor trims the front and refills.          *)
(*                                                                         *)
(* The source draws lengths from segment_length_range = (30, 70) and the   *)
(* driver uses an 800x600 screen.  The state machine below keeps the code  *)
(* as it is and scales the numbers: lengths are drawn from MinLen..MaxLen  *)
(* and screen sizes from ScreenSizes, so that every sequence of random     *)
(* draws can be enumerated.                                                *)
(***************************************************************************)
EXTENDS Integers, Sequences, FiniteSets, TLC

VARIABLES
    pc,                  \* position of the single thread of control
    screen_width,        \* Corridor.screen_width
    screen_height,       \* Corridor.screen_height
    cells,               \* Corridor.cells, front first
    occupied_positions,  \* Corridor.occupied_positions: cell -> Direction
    popped,              \* cells.pop() calls made by the running _add_safe_cell
    ret,                 \* <<value>> returned by the last _add_safe_cell
                         \* call, <<>> before any
    filled,              \* <<answer>> of the last bare _is_screen_filled
                         \* query of the path, <<>> when none was made
    entry,               \* cells as they were when the loop called the
                         \* running (or last) _add_safe_cell
    reply                \* <<name, value, ...>> of the last call of an
                         \* accessor or of Direction.opposite, <<>> if none

vars == <<pc, screen_width, screen_height, cells, occupied_positions,
          popped, ret, filled, entry, reply>>

---------------------------------------------------------------------------
(* Bounds of the model.                                                    *)

\* segment_length_range, scaled (the source has (30, 70)).
MinLen == 1
MaxLen == 2
\* The largest screen dimension a Corridor is constructed with.
MaxScreen == 3
\* The longest path handed to a bare _is_screen_filled query.
MaxQueryLen == 3
\* The longest run of Right cells queried on the driver's screen.
MaxRun == 16

---------------------------------------------------------------------------
(* Direction                                                               *)

Direction == {"U", "D", "L", "R"}

\* a slip in the table of opposite: every direction mapped to itself
oppositeSame(d) == d

\* the table of opposite with the entry of RIGHT mapped to itself
oppositeSlip(d) ==
    CASE d = "U" -> "D"
      [] d = "D" -> "U"
      [] d = "L" -> "R"
      [] d = "R" -> "R"

\* Direction.opposite
opposite(d) ==
    CASE d = "U" -> "D"
      [] d = "D" -> "U"
      [] d = "L" -> "R"
      [] d = "R" -> "L"

\* step_x, step_y of _update_occupied_positions and _would_intersect
StepX(d) == CASE d = "L" -> -1 [] d = "R" -> 1 [] OTHER -> 0
StepY(d) == CASE d = "U" -> -1 [] d = "D" -> 1 [] OTHER -> 0

CorridorCell(d, n) == [direction |-> d, length |-> n]

segment_length_range == <<MinLen, MaxLen>>

\* random.randint(*range): any integer of the closed range
RandInt(range) == range[1] .. range[2]

abs(v) == IF v < 0 THEN -v ELSE v
min(a, b) == IF a < b THEN a ELSE b
max(a, b) == IF a > b THEN a ELSE b

---------------------------------------------------------------------------
(* Corridor: the pure helpers                                              *)

\* a removal at the wrong end of the deque (popleft)
PopLeft(cs) == Tail(cs)

\* self.cells.pop()
Pop(cs) == SubSeq(cs, 1, Len(cs) - 1)

\* one pass of the loop body of _get_end_position: <<x, y>> moved by cell
Move(p, cell) ==
    <<p[1] + StepX(cell.direction) * cell.length,
      p[2] + StepY(cell.direction) * cell.length>>

\* the loop of _get_end_position after its first n passes over cs.  (The
\* value of the recursive call is bound once, as the element of a
\* singleton, so that it is computed once.)
RECURSIVE EndAfter(_, _)
EndAfter(cs, n) ==
    IF n = 0 THEN <<0, 0>>
    ELSE CHOOSE q \in { Move(p, cs[n]) : p \in {EndAfter(cs, n - 1)} } : TRUE

\* _get_end_position: replay every cell from the origin
GetEndPosition(cs) == EndAfter(cs, Len(cs))

\* one pass of the loop body of _get_corridor_bounds on the loop's
\* variables t = <<x, y, min_x, max_x, min_y, max_y>>
BoundsStep(t, cell) ==
    LET q == Move(<<t[1], t[2]>>, cell)
    IN  <<q[1], q[2], min(t[3], q[1]), max(t[4], q[1]),
          min(t[5], q[2]), max(t[6], q[2])>>

\* the loop of _get_corridor_bounds after its first n passes over cs
RECURSIVE BoundsAfter(_, _)
BoundsAfter(cs, n) ==
    IF n = 0 THEN <<0, 0, 0, 0, 0, 0>>
    ELSE CHOOSE u \in { BoundsStep(t, cs[n]) : t \in {BoundsAfter(cs, n - 1)} } :
             TRUE

\* _get_corridor_bounds: <<min_x, max_x, min_y, max_y>>
GetCorridorBounds(cs) ==
    LET t == BoundsAfter(cs, Len(cs)) IN <<t[3], t[4], t[5], t[6]>>

\* a slip in _is_screen_filled: >= where the code has >
IsScreenFilledReaching(cs, w, h) ==
    /\ cs # <<>>
    /\ LET b == GetCorridorBounds(cs)
       IN  \/ abs(b[1]) >= w \div 2
           \/ abs(b[2]) >= w \div 2
           \/ abs(b[3]) >= h \div 2
           \/ abs(b[4]) >= h \div 2

\* _is_screen_filled
IsScreenFilled(cs, w, h) ==
    /\ cs # <<>>
    /\ LET b == GetCorridorBounds(cs)
       IN  \/ abs(b[1]) > w \div 2
           \/ abs(b[2]) > w \div 2
           \/ abs(b[3]) > h \div 2
           \/ abs(b[4]) > h \div 2

\* the cells the loop of _update_occupied_positions / _would_intersect visits
SegmentCells(start_x, start_y, d, length) ==
    { <<start_x + k * StepX(d), start_y + k * StepY(d)>> : k \in 1 .. length }

\* an index rebuilt from the new segment alone: the keys it held are lost
UpdateOccupiedPositionsFresh(occ, start_x, start_y, d, length) ==
    [p \in SegmentCells(start_x, start_y, d, length) |-> d]

\* _update_occupied_positions
UpdateOccupiedPositions(occ, start_x, start_y, d, length) ==
    LET new == SegmentCells(start_x, start_y, d, length)
    IN  [p \in (DOMAIN occ) \cup new |-> IF p \in new THEN d ELSE occ[p]]

\* a slip in _would_intersect: the answer inverted
WouldIntersectInverted(occ, start_x, start_y, d, length) ==
    ~(\E p \in SegmentCells(start_x, start_y, d, length) : p \in DOMAIN occ)

\* a slip in _would_intersect: the walk stops one cell early
WouldIntersectShort(occ, start_x, start_y, d, length) ==
    \E p \in SegmentCells(start_x, start_y, d, length - 1) : p \in DOMAIN occ

\* _would_intersect, with the length its random.randint call drew
WouldIntersect(occ, start_x, start_y, d, length) ==
    \E p \in SegmentCells(start_x, start_y, d, length) : p \in DOMAIN occ

\* self.screen_width // 2 and self.screen_height // 2 of shift_corridor
PosThreshold(v) == v \div 2

\* -self.screen_width // 2 and -self.screen_height // 2 of shift_corridor:
\* the minus sign binds tighter than //, so Python floors (-v) / 2
NegThreshold(v) == (-v) \div 2

\* the trimming test with the two bounds of each axis taken for one another
FrontScrolledOffSwapped(cs, w, h) ==
    LET first_cell == cs[1]
        bounds == GetCorridorBounds(cs)
    IN  \/ /\ first_cell.direction \in {"L", "R"}
           /\ (bounds[1] < NegThreshold(w) \/ bounds[2] > PosThreshold(w))
        \/ /\ first_cell.direction \in {"U", "D"}
           /\ (bounds[3] < NegThreshold(h) \/ bounds[4] > PosThreshold(h))

\* the test of shift_corridor's trimming loop on the front cell
FrontScrolledOff(cs, w, h) ==
    LET first_cell == cs[1]
        bounds == GetCorridorBounds(cs)
    IN  \/ /\ first_cell.direction \in {"L", "R"}
           /\ (bounds[2] < NegThreshold(w) \/ bounds[1] > PosThreshold(w))
        \/ /\ first_cell.direction \in {"U", "D"}
           /\ (bounds[4] < NegThreshold(h) \/ bounds[3] > PosThreshold(h))

\* a slip in the trimming loop's guard: the last cell is not protected
TrimGuardNoFloor(cs) == Len(cs) > 0

\* the guard of shift_corridor's trimming loop
TrimGuard(cs) == Len(cs) > 1

\* a slip in the generation loop: it also insists on a second cell
InitializeDoneTwoCells(cs, w, h) == Len(cs) >= 2 /\ IsScreenFilled(cs, w, h)

\* the exit test of the while True loop of _initialize_corridor
InitializeDone(cs, w, h) == IsScreenFilled(cs, w, h)


---------------------------------------------------------------------------
(* The state machine                                                       *)

\* the screen_size arguments a Corridor is constructed with
ScreenSizes ==
    { <<MaxScreen, MaxScreen>>, <<MaxScreen - 1, MaxScreen>>,
      <<0, MaxScreen>>, <<-2, MaxScreen>>, <<MaxScreen, -1>> }

EmptyDict == [p \in {} |-> "U"]

Init ==
    /\ pc = "new"
    /\ screen_width = 0
    /\ screen_height = 0
    /\ cells = <<>>
    /\ occupied_positions = EmptyDict
    /\ popped = 0
    /\ ret = <<>>
    /\ filled = <<>>
    /\ entry = <<>>
    /\ reply = <<>>

\* Corridor.__init__ and the seeding lines of _initialize_corridor, for a
\* screen_size of sizes
ConstructOn(sizes) ==
    /\ pc = "new"
    /\ \E size \in sizes, initial_dir \in Direction,
          initial_len \in RandInt(segment_length_range) :
          /\ screen_width' = size[1]
          /\ screen_height' = size[2]
          /\ cells' = <<CorridorCell(initial_dir, initial_len)>>
          /\ occupied_positions' =
                 UpdateOccupiedPositions(EmptyDict, 0, 0, initial_dir, initial_len)
    /\ pc' = "init_loop"
    /\ UNCHANGED <<popped, ret, filled, entry, reply>>

Construct == ConstructOn(ScreenSizes)

\* one pass of the while True loop of _initialize_corridor, up to the call
InitializeLoop ==
    /\ pc = "init_loop"
    /\ IF InitializeDone(cells, screen_width, screen_height)
       THEN pc' = "ready" /\ UNCHANGED <<popped, entry>>
       ELSE pc' = "init_add" /\ popped' = 0 /\ entry' = cells
    /\ UNCHANGED <<screen_width, screen_height, cells, occupied_positions,
                   ret, filled, reply>>

\* one activation of the recursive _add_safe_cell
AddSafeCell ==
    /\ pc \in {"init_add", "shift_add"}
    /\ LET back == IF pc = "init_add" THEN "init_loop" ELSE "shift_loop"
       IN
       IF cells = <<>>
       THEN /\ ret' = <<FALSE>>
            /\ pc' = back
            /\ UNCHANGED <<cells, occupied_positions, popped>>
       ELSE LET last_dir == cells[Len(cells)].direction
                forbidden_directions == {opposite(last_dir)}
            IN  \* _would_intersect draws a length of its own on every call,
                \* and is called for the directions that are not forbidden
                \E end \in {GetEndPosition(cells)},
                   probe \in [Direction \ forbidden_directions ->
                                 RandInt(segment_length_range)] :
                  \E possible_dirs \in
                        {{ d \in Direction \ forbidden_directions :
                             ~WouldIntersect(occupied_positions,
                                             end[1], end[2], d, probe[d]) }} :
                      IF possible_dirs = {}
                      THEN /\ cells' = Pop(cells)
                           /\ popped' = popped + 1
                           /\ UNCHANGED <<pc, occupied_positions, ret>>
                      ELSE \E new_dir \in possible_dirs,
                              new_len \in RandInt(segment_length_range) :
                             /\ cells' = Append(cells, CorridorCell(new_dir, new_len))
                             /\ occupied_positions' =
                                   UpdateOccupiedPositions(occupied_positions,
                                       end[1], end[2], new_dir, new_len)
                             /\ ret' = <<TRUE>>
                             /\ pc' = back
                             /\ UNCHANGED popped
    /\ UNCHANGED <<screen_width, screen_height, filled, entry, reply>>

\* a call of shift_corridor on the constructed Corridor
ShiftCorridor ==
    /\ pc = "ready"
    /\ pc' = "shift_trim"
    /\ UNCHANGED <<screen_width, screen_height, cells, occupied_positions,
                   popped, ret, filled, entry, reply>>

\* one pass of shift_corridor's trimming loop
ShiftTrim ==
    /\ pc = "shift_trim"
    /\ IF TrimGuard(cells) /\ FrontScrolledOff(cells, screen_width, screen_height)
       THEN cells' = Tail(cells) /\ UNCHANGED pc
       ELSE pc' = "shift_loop" /\ UNCHANGED cells
    /\ UNCHANGED <<screen_width, screen_height, occupied_positions,
                   popped, ret, filled, entry, reply>>

\* one pass of shift_corridor's refill loop, up to the call
ShiftLoop ==
    /\ pc = "shift_loop"
    /\ IF IsScreenFilled(cells, screen_width, screen_height)
       THEN pc' = "ready" /\ UNCHANGED <<popped, entry>>
       ELSE pc' = "shift_add" /\ popped' = 0 /\ entry' = cells
    /\ UNCHANGED <<screen_width, screen_height, cells, occupied_positions,
                   ret, filled, reply>>

Next ==
    \/ Construct
    \/ InitializeLoop
    \/ AddSafeCell
    \/ ShiftCorridor
    \/ ShiftTrim
    \/ ShiftLoop

Spec == Init /\ [][Next]_vars

\* the same program on a screen wide enough for a dead end behind a dead
\* end, where one call of _add_safe_cell removes more than one cell
WideScreens == { <<MaxScreen + 1, MaxScreen - 1>> }

WideConstruct == ConstructOn(WideScreens)

WideNext ==
    \/ WideConstruct
    \/ InitializeLoop
    \/ AddSafeCell
    \/ ShiftCorridor
    \/ ShiftTrim
    \/ ShiftLoop

WideSpec == Init /\ [][WideNext]_vars

\* the generation and shift loops are plain sequential code: whenever a
\* step is possible the interpreter takes it
FairSpec == Spec /\ WF_vars(Next)

---------------------------------------------------------------------------
(* _is_screen_filled as a function of the path and the screen: paths of    *)
(* up to MaxQueryLen cells on the screens of ScreenSizes, and runs of      *)
(* Right cells of length 50 on the driver's 800x600 screen.                *)

\* screen_size of the module-level driver
DriverScreen == <<800, 600>>

\* get_direction_sequence: the symbols of the cells, in path order
GetDirectionSequence(cs) == [i \in 1 .. Len(cs) |-> cs[i].direction]

\* get_turn_points without its test of the two directions
GetTurnPointsAll(cs) ==
    [i \in 1 .. Len(cs) - 1 |-> <<i, cs[i].direction, cs[i + 1].direction>>]

\* the turns list after the loop body has run for i = 1 .. n (cells[i] of the
\* code is cs[i + 1] here)
RECURSIVE TurnsAfter(_, _)
TurnsAfter(cs, n) ==
    IF n = 0 THEN <<>>
    ELSE CHOOSE t \in { IF cs[n].direction # cs[n + 1].direction
                         THEN Append(turns, <<n, cs[n].direction,
                                              cs[n + 1].direction>>)
                         ELSE turns
                       : turns \in {TurnsAfter(cs, n - 1)} } : TRUE

\* get_turn_points: range(1, len(cells)) is empty for fewer than two cells
GetTurnPoints(cs) == TurnsAfter(cs, IF Len(cs) = 0 THEN 0 ELSE Len(cs) - 1)

QueryInit ==
    /\ pc = "query"
    /\ \E size \in ScreenSizes \cup {DriverScreen} :
          screen_width = size[1] /\ screen_height = size[2]
    /\ cells = <<>>
    /\ occupied_positions = EmptyDict
    /\ popped = 0
    /\ ret = <<>>
    /\ filled = <<>>
    /\ entry = <<>>
    /\ reply = <<>>

\* the lengths a cell added to the path under query may have: those of the
\* generator, or 50 on a path made of cells of length 50 only
QueryLengths(cs) ==
    IF cs = <<>> THEN RandInt(segment_length_range) \cup {50}
    ELSE IF cs[1].length = 50 THEN {50}
    ELSE RandInt(segment_length_range)

\* the path under query grows by one cell, claimed as an append claims it
QueryAppend ==
    /\ pc = "query"
    /\ LET end == GetEndPosition(cells)
           onDriver == <<screen_width, screen_height>> = DriverScreen
       IN  \E d \in (IF onDriver THEN {"R"} ELSE Direction),
              n \in (IF onDriver THEN {50} ELSE QueryLengths(cells)) :
              /\ Len(cells) < (IF onDriver THEN MaxRun ELSE MaxQueryLen)
              /\ cells' = Append(cells, CorridorCell(d, n))
              /\ occupied_positions' =
                     UpdateOccupiedPositions(occupied_positions,
                                             end[1], end[2], d, n)
    /\ filled' = <<>>
    /\ reply' = <<>>
    /\ UNCHANGED <<pc, screen_width, screen_height, popped, ret, entry>>

\* a call of _is_screen_filled on the path under query
QueryIsScreenFilled ==
    /\ pc = "query"
    /\ filled' = <<IsScreenFilled(cells, screen_width, screen_height)>>
    /\ reply' = <<>>
    /\ UNCHANGED <<pc, screen_width, screen_height, cells, occupied_positions,
                   popped, ret, entry>>

\* a call of get_direction_sequence on the path under query
QueryGetDirectionSequence ==
    /\ pc = "query"
    /\ reply' = <<"get_direction_sequence", GetDirectionSequence(cells)>>
    /\ filled' = <<>>
    /\ UNCHANGED <<pc, screen_width, screen_height, cells, occupied_positions,
                   popped, ret, entry>>

\* a call of get_turn_points on the path under query
QueryGetTurnPoints ==
    /\ pc = "query"
    /\ reply' = <<"get_turn_points", GetTurnPoints(cells)>>
    /\ filled' = <<>>
    /\ UNCHANGED <<pc, screen_width, screen_height, cells, occupied_positions,
                   popped, ret, entry>>

\* d.opposite() and d.opposite().opposite() of a direction d
QueryOpposite ==
    /\ pc = "query"
    /\ \E d \in Direction :
          reply' = <<"opposite", d, opposite(d), opposite(opposite(d))>>
    /\ filled' = <<>>
    /\ UNCHANGED <<pc, screen_width, screen_height, cells, occupied_positions,
                   popped, ret, entry>>

QueryNext ==
    \/ QueryAppend
    \/ QueryIsScreenFilled
    \/ QueryGetDirectionSequence
    \/ QueryGetTurnPoints
    \/ QueryOpposite

QuerySpec == QueryInit /\ [][QueryNext]_vars

---------------------------------------------------------------------------
(* Vocabulary of the properties                                            *)

\* the cells segment i of cs claims, its start replayed from the origin
ClaimedCells(cs, i) ==
    LET start == GetEndPosition(SubSeq(cs, 1, i - 1))
    IN  SegmentCells(start[1], start[2], cs[i].direction, cs[i].length)

\* the cells claimed by the segments of cs
PathCells(cs) == UNION { ClaimedCells(cs, i) : i \in 1 .. Len(cs) }

\* b retraces a: the two unit steps cancel
Reverses(a, b) == StepX(a) + StepX(b) = 0 /\ StepY(a) + StepY(b) = 0

\* floor(v / 2), by its defining inequality
Half(v) == CHOOSE k \in (-abs(v) - 1) .. (abs(v) + 1) : 2 * k <= v /\ v < 2 * k + 2

\* the origin and the end vertex of every segment of cs
Vertices(cs) == { GetEndPosition(SubSeq(cs, 1, i)) : i \in 0 .. Len(cs) }

\* some vertex of cs lies strictly beyond a half-extent of the w x h screen
BeyondScreen(cs, w, h) ==
    \E v \in Vertices(cs) : abs(v[1]) > Half(w) \/ abs(v[2]) > Half(h)

\* the control positions a constructed Corridor is in
Constructed == {"ready", "shift_trim", "shift_loop", "shift_add"}

\* the control positions inside the constructor's generation loop
Generating == {"init_loop", "init_add"}

---------------------------------------------------------------------------
(* Properties                                                              *)

\* C1: global self-avoidance.  In every reachable state any two distinct
\* segments of the path claim disjoint sets of grid cells.  TLC refutes it:
\* _would_intersect probes with a length of its own, so a segment longer
\* than its probe runs over cells that are already claimed.
C1_SelfAvoidance ==
    \A i, j \in 1 .. Len(cells) :
        i # j => ClaimedCells(cells, i) \cap ClaimedCells(cells, j) = {}

\* C2: no immediate reversal.  In every reachable state, backtracking pops
\* and shift_corridor included, no segment of the path points opposite to
\* the segment before it.
C2_NoImmediateReversal ==
    \A i \in 2 .. Len(cells) :
        ~Reverses(cells[i - 1].direction, cells[i].direction)

\* C2 witness: _add_safe_cell has popped at least one cell and then appended
\* to the surviving prefix.
C2_Witness ==
    /\ pc = "init_loop"
    /\ popped >= 1
    /\ ret = <<TRUE>>
    /\ Len(cells) >= 2

\* C3: generation terminates.  On a screen with positive width and height
\* the loop started by the constructor eventually stops, with
\* _is_screen_filled() true, whatever directions and lengths are drawn.
C3_GenerationTerminates ==
    (pc \in Generating /\ screen_width > 0 /\ screen_height > 0)
        ~> (pc = "ready" /\ IsScreenFilled(cells, screen_width, screen_height))

\* C3 witness: a generation on a positive screen that needed backtracking
\* has stopped.
C3_Witness ==
    /\ pc = "ready"
    /\ screen_width > 0 /\ screen_height > 0
    /\ popped >= 1
    /\ Len(cells) >= 3
    /\ IsScreenFilled(cells, screen_width, screen_height)

\* C5: the occupied-cell index is exactly the cells claimed by the segments
\* now in the path.  TLC refutes it: cells.pop() leaves the popped segment's
\* cells in occupied_positions.
C5_IndexMatchesPath ==
    DOMAIN occupied_positions = PathCells(cells)

\* C6: once construction has completed the path holds at least one segment,
\* in every state of every shift_corridor call (trimming and refill loops
\* included).
C6_SoleSegmentKept ==
    pc \in Constructed => Len(cells) >= 1

\* C6 witness: shift_corridor's trimming loop has run and finished on a path
\* of exactly one segment.
C6_Witness ==
    /\ pc = "shift_loop"
    /\ screen_width > 0 /\ screen_height > 0
    /\ Len(cells) = 1

\* C8: the path is extended just far enough.  When construction completes
\* _is_screen_filled() holds of the path and fails of the path without its
\* last segment.
C8_JustFarEnough ==
    pc = "ready" =>
        /\ IsScreenFilled(cells, screen_width, screen_height)
        /\ ~IsScreenFilled(Pop(cells), screen_width, screen_height)

\* C8 witness: construction completed by an extension that backtracked over
\* earlier segments before it appended.
C8_Witness ==
    /\ pc = "ready"
    /\ popped >= 1
    /\ Len(cells) >= 2

\* C9: a non-positive screen dimension is rejected at construction: no
\* segment is generated.  TLC refutes it: __init__ checks nothing and seeds
\* the path.
C9_RejectsBadScreen ==
    (pc # "new" /\ (screen_width <= 0 \/ screen_height <= 0)) => cells = <<>>

\* C10: _is_screen_filled() is true iff the path is non-empty and some
\* extreme of the box around the origin and the segments' end vertices is
\* strictly beyond floor(width/2) or floor(height/2); on 800x600 a run of n
\* Right segments of length 50 is not filled for n <= 8 and filled for
\* n >= 9.
C10_FilledIffBeyond ==
    filled # <<>> =>
        /\ filled[1] <=> (cells # <<>> /\ BeyondScreen(cells, screen_width, screen_height))
        /\ <<screen_width, screen_height>> = DriverScreen =>
               (filled[1] <=> Len(cells) >= 9)

\* C10 witness: eight Right segments of 50 on 800x600 reach the half-width
\* exactly, and the query has answered false.
C10_Witness ==
    /\ <<screen_width, screen_height>> = DriverScreen
    /\ Len(cells) = 8
    /\ GetEndPosition(cells) = <<400, 0>>
    /\ filled = <<FALSE>>

\* C11: the reply of get_direction_sequence has one symbol per segment, the
\* segment's own, in path order; the reply of get_turn_points lists, by
\* increasing index i >= 1 (counted from 0), exactly the triples
\* (i, direction of segment i-1, direction of segment i) whose two directions
\* differ; the path Right(50), Down(50), Left(50) gives R, D, L and the turn
\* points (1, R, D) and (2, D, L).
C11_AccessorsExact ==
    /\ (reply # <<>> /\ reply[1] = "get_direction_sequence") =>
          /\ Len(reply[2]) = Len(cells)
          /\ \A k \in 1 .. Len(cells) :
                /\ reply[2][k] \in Direction
                /\ reply[2][k] = cells[k].direction
          /\ cells = <<CorridorCell("R", 50), CorridorCell("D", 50),
                       CorridorCell("L", 50)>>
                => reply[2] = <<"R", "D", "L">>
    /\ (reply # <<>> /\ reply[1] = "get_turn_points") =>
          LET turns == reply[2]
          IN  /\ \A k \in 1 .. Len(turns) :
                    /\ turns[k][1] \in 1 .. Len(cells) - 1
                    /\ turns[k][2] = cells[turns[k][1]].direction
                    /\ turns[k][3] = cells[turns[k][1] + 1].direction
                    /\ turns[k][2] # turns[k][3]
              /\ \A j, k \in 1 .. Len(turns) :
                    j < k => turns[j][1] < turns[k][1]
              /\ \A i \in 1 .. Len(cells) - 1 :
                    cells[i].direction # cells[i + 1].direction
                       => \E k \in 1 .. Len(turns) : turns[k][1] = i
              /\ cells = <<CorridorCell("R", 50), CorridorCell("D", 50),
                           CorridorCell("L", 50)>>
                    => turns = << <<1, "R", "D">>, <<2, "D", "L">> >>

\* turn points were asked of a path that also runs straight on: Right, Right,
\* Down has a turn at index 2 only
C11_Witness ==
    /\ reply # <<>>
    /\ reply[1] = "get_turn_points"
    /\ Len(cells) = 3
    /\ cells[1].direction = cells[2].direction
    /\ cells[2].direction # cells[3].direction
    /\ Len(reply[2]) = 1

\* C12: opposite is an involution without fixed points: for each direction
\* d, d.opposite().opposite() is d again and d.opposite() is a direction
\* other than d.
C12_OppositeInvolution ==
    (reply # <<>> /\ reply[1] = "opposite") =>
        /\ reply[2] \in Direction
        /\ reply[3] \in Direction
        /\ reply[4] = reply[2]
        /\ reply[3] # reply[2]

\* the opposite of RIGHT, and the opposite of that, were asked for
C12_Witness ==
    /\ reply # <<>>
    /\ reply[1] = "opposite"
    /\ reply[2] = "R"
    /\ reply[3] = "L"

\* a step of _add_safe_cell that appends a cell
Appends ==
    /\ pc \in {"init_add", "shift_add"}
    /\ Len(cells') = Len(cells) + 1

\* the cells the appended segment claims, from the end position of the path
\* it is appended to
AppendedCells == ClaimedCells(cells', Len(cells'))

\* C13: whenever _add_safe_cell appends a segment, every cell the segment
\* claims is absent from the occupied-cell index at that moment:
\* _update_occupied_positions overwrites no key.
C13_AppendOverwritesNoKey ==
    [][Appends => AppendedCells \cap DOMAIN occupied_positions = {}]_vars

\* a is an initial part of b
IsPrefix(a, b) == Len(a) <= Len(b) /\ a = SubSeq(b, 1, Len(a))

\* control is inside a call of _add_safe_cell
InCall == pc \in {"init_add", "shift_add"}

\* C14: a call of _add_safe_cell on a path of k >= 1 segments terminates
\* after removing at most k segments, all from the back: while it runs the
\* path is an initial part of the path it was called on, shorter by the
\* number of removals, and a further step is possible; a step that does not
\* return shortens the path by one; the step that returns either appends
\* exactly one segment to the surviving initial part and answers True, or
\* finds the path empty, leaves it so and answers False.
C14_BacktrackingBounded ==
    /\ [](InCall =>
            /\ Len(entry) >= 1
            /\ IsPrefix(cells, entry)
            /\ popped = Len(entry) - Len(cells)
            /\ popped <= Len(entry)
            /\ ENABLED AddSafeCell)
    /\ [][InCall /\ InCall' =>
              /\ Len(cells) >= 1
              /\ Len(cells') = Len(cells) - 1
              /\ IsPrefix(cells', entry)
              /\ popped' = popped + 1]_vars
    /\ [][InCall /\ ~InCall' =>
              /\ popped' = popped /\ popped' <= Len(entry)
              /\ \/ /\ ret' = <<TRUE>>
                    /\ Len(cells') = Len(cells) + 1
                    /\ SubSeq(cells', 1, Len(cells)) = cells
                    /\ IsPrefix(cells, entry)
                 \/ /\ ret' = <<FALSE>>
                    /\ cells = <<>>
                    /\ cells' = <<>>]_vars

\* a call that removed two segments of a path of at least three and then
\* appended one to what was left has returned
C14_Witness ==
    /\ pc = "init_loop"
    /\ ret = <<TRUE>>
    /\ popped >= 2
    /\ Len(entry) >= 3
    /\ Len(cells) = Len(entry) - popped + 1
    /\ IsPrefix(Pop(cells), entry)

\* C15: on a Corridor with positive dimensions, whenever the trimming loop
\* of shift_corridor tests the front cell, the thresholds of the axis it
\* tests are floor(dimension / 2) on the positive side and the mirror
\* image, -floor(dimension / 2), on the negative side.
C15_MirroredThresholds ==
    (/\ pc = "shift_trim"
     /\ TrimGuard(cells)
     /\ screen_width > 0
     /\ screen_height > 0) =>
        LET v == IF cells[1].direction \in {"L", "R"}
                 THEN screen_width ELSE screen_height
        IN  /\ PosThreshold(v) = Half(v)
            /\ NegThreshold(v) = -Half(v)

\* C16: once construction has completed with positive dimensions,
\* shift_corridor is a no-op, however often it is called: no step of it
\* changes the path or the occupied-cell index, the path stays beyond the
\* screen, and control never enters _add_safe_cell from the refill loop.
C16_ShiftIsNoOp ==
    /\ [][(pc \in Constructed /\ screen_width > 0 /\ screen_height > 0) =>
              /\ cells' = cells
              /\ occupied_positions' = occupied_positions]_vars
    /\ []((pc \in Constructed /\ screen_width > 0 /\ screen_height > 0) =>
              /\ BeyondScreen(cells, screen_width, screen_height)
              /\ pc # "shift_add")

\* shift_corridor has gone through its trimming loop on a path of several
\* cells whose index also holds the cells of a removed segment
C16_Witness ==
    /\ pc = "shift_loop"
    /\ screen_width > 0
    /\ screen_height > 0
    /\ Len(cells) >= 3
    /\ popped >= 1
    /\ PathCells(cells) # DOMAIN occupied_positions

\* the first min_len cells of the appended segment, counted from the end
\* position of the path it is appended to (min_len is the lower bound of
\* segment_length_range)
AppendedHead ==
    LET end == GetEndPosition(cells)
        new_dir == cells'[Len(cells')].direction
    IN  { <<end[1] + k * StepX(new_dir), end[2] + k * StepY(new_dir)>> :
             k \in 1 .. segment_length_range[1] }

\* C17: whenever _add_safe_cell appends a segment, the first min_len cells of
\* the segment are absent from the occupied-cell index at that moment,
\* whatever lengths the probe and the append drew.
C17_HeadOfAppendIsFree ==
    [][Appends => AppendedHead \cap DOMAIN occupied_positions = {}]_vars

\* a call has appended a segment longer than min_len that runs over a cell
\* of an earlier segment, beyond its first min_len cells
C17_Witness ==
    /\ pc = "init_loop"
    /\ ret = <<TRUE>>
    /\ Len(cells) >= 2
    /\ cells[Len(cells)].length > segment_length_range[1]
    /\ ClaimedCells(cells, Len(cells)) \cap PathCells(Pop(cells)) # {}

\* C18: the occupied-cell index covers the live path and never loses a key:
\* in every state each cell claimed by a segment of the path, replayed from
\* the origin, is a key of occupied_positions, and every step leaves the key
\* set a superset of what it was.
C18_IndexCoversAndGrows ==
    /\ [](PathCells(cells) \subseteq DOMAIN occupied_positions)
    /\ [][DOMAIN occupied_positions \subseteq DOMAIN occupied_positions']_vars

\* _add_safe_cell has just removed a segment, and the index still holds a
\* cell that no segment of the path claims
C18_Witness ==
    /\ pc = "init_add"
    /\ popped >= 1
    /\ Len(cells) >= 2
    /\ \E p \in DOMAIN occupied_positions : p \notin PathCells(cells)

---------------------------------------------------------------------------
(* Two facts about the reachable states                                    *)

\* After the seed is appended the path is never empty: the backtracking of
\* _add_safe_cell never reaches the seed, so its `return False` never runs.
PathNeverEmptied ==
    pc # "new" => cells # <<>>

\* No step removes the front cell: the box of _get_corridor_bounds starts
\* from the origin, so the test of the trimming loop never holds.
FrontNeverRemoved ==
    [][cells # <<>> /\ cells' # <<>> => cells'[1] = cells[1]]_vars

=============================================================================
